---- MODULE Spec2Model ----
(***************************************************************************)
(* The mClock scheduler facade of an OSD (osd/scheduler/mClockScheduler.cc) *)
(* as a state machine: one scheduler instance per shard, a configuration   *)
(* store shared by the shards of the node, the monitor command channel,    *)
(* and the dmclock priority queue each instance submits to and pulls from. *)
(***************************************************************************)
EXTENDS Integers, Sequences, FiniteSets, TLC

\* ------------------------------------------------------------------ bounds
\* Work items handed to enqueue / enqueue_front in one behaviour.
MaxItems == 3
\* Changes the operator makes to the configuration in one behaviour.
MaxChanges == 1

\* ----------------------------------------------------------------- numbers
Max(a, b) == IF a >= b THEN a ELSE b

\* TLC integers are 32-bit signed, so a uint32_t / uint64_t value is held as
\* two limbs, value = hi * 2^16 + lo with 0 <= lo < 2^16.
B16 == 2 ^ 16
Big(h, l) == [hi |-> h, lo |-> l]
ToBig(n) == Big(n \div B16, n % B16)
BigAdd(a, b) ==
  LET l == a.lo + b.lo IN Big(a.hi + b.hi + (l \div B16), l % B16)
BigMulSmall(a, k) ==
  LET l == a.lo * k IN Big(a.hi * k + (l \div B16), l % B16)
\* floor(a / d) for a divisor d < 2^15
BigDivSmall(a, d) ==
  LET r == a.hi % d IN Big(a.hi \div d, (r * B16 + a.lo) \div d)
BigLeq(a, b) == a.hi < b.hi \/ (a.hi = b.hi /\ a.lo <= b.lo)
BigMax(a, b) == IF BigLeq(b, a) THEN a ELSE b
\* uint32_t: the largest value, membership, and reduction modulo 2^32
UINT32_MAX == Big(B16 - 1, B16 - 1)
FitsU32(a) == a.hi < B16
WrapU32(a) == Big(a.hi % B16, a.lo)

\* A double is held exactly: a fraction or a weight in hundredths (0.4 is 40),
\* a quotient or product as the pair [num, den] that denotes num / den.
Ratio(n, d) == [num |-> n, den |-> d]
\* floor of a non-negative quotient
Trunc(q) == BigDivSmall(q.num, q.den)
\* static_cast<uint32_t>(double): the truncated value when it fits; otherwise
\* the conversion is undefined and the build decides (reduction modulo 2^32
\* or saturation).
CastU32(x) == IF FitsU32(x) THEN {x} ELSE {WrapU32(x), UINT32_MAX}

\* ------------------------------------------------------------------- text
DigitChars == <<"0", "1", "2", "3", "4", "5", "6", "7", "8", "9">>
RECURSIVE NatToString(_)
\* std::to_string of an unsigned integer
NatToString(n) ==
  IF n < 10 THEN DigitChars[n + 1]
  ELSE NatToString(n \div 10) \o DigitChars[(n % 10) + 1]
\* std::to_string(double) prints "%f": six decimals. h is in hundredths.
DoubleToString(h) ==
  NatToString(h \div 100) \o "." \o DigitChars[((h % 100) \div 10) + 1]
    \o DigitChars[(h % 10) + 1] \o "0000"
DigitValue(ch) == (CHOOSE i \in 1..10 : DigitChars[i] = ch) - 1
RECURSIVE ParseNat(_)
\* the configuration store's parse of an unsigned option
ParseNat(str) ==
  IF Len(str) = 0 THEN 0
  ELSE ParseNat(SubSeq(str, 1, Len(str) - 1)) * 10
         + DigitValue(SubSeq(str, Len(str), Len(str)))
\* the configuration store's parse of a floating-point option, in hundredths
ParseDouble(str) ==
  LET dot == CHOOSE i \in 1..Len(str) : SubSeq(str, i, i) = "."
  IN ParseNat(SubSeq(str, 1, dot - 1)) * 100
       + ParseNat(SubSeq(str, dot + 1, dot + 2))

\* ------------------------------------------------------------------ types
\* op_scheduler_class
Classes == {"immediate", "client", "background_recovery",
            "background_best_effort"}
QosClasses == {"client", "background_recovery", "background_best_effort"}
InternalClasses == {"background_recovery", "background_best_effort"}
Profiles == {"custom", "balanced", "high_recovery_ops", "high_client_ops"}

Key(c, p) == "osd_mclock_scheduler_" \o c \o "_" \o p
\* the nine QoS keys, in the order get_changed_key scans them
qos_params ==
  << Key("client", "res"), Key("client", "wgt"), Key("client", "lim"),
     Key("background_recovery", "res"), Key("background_recovery", "wgt"),
     Key("background_recovery", "lim"),
     Key("background_best_effort", "res"),
     Key("background_best_effort", "wgt"),
     Key("background_best_effort", "lim") >>
QosKeys == {qos_params[i] : i \in 1..Len(qos_params)}
IopsKeys == {"osd_mclock_max_capacity_iops_hdd",
             "osd_mclock_max_capacity_iops_ssd"}
BwKeys == {"osd_mclock_max_sequential_bandwidth_hdd",
           "osd_mclock_max_sequential_bandwidth_ssd"}
ProfileKey == "osd_mclock_profile"
\* get_tracked_conf_keys
TrackedKeys == QosKeys \cup IopsKeys \cup BwKeys \cup {ProfileKey}

Shards == {0, 1}

VARIABLES
  conf,           \* the configuration store shared by the node's shards
  is_rotational,  \* constructor argument: the device type of the node
  monc,           \* constructor argument: TRUE when a MonClient is given
  whoami,         \* constructor argument: the OSD id
  inst,           \* inst[s]: the fields of the scheduler instance of shard s
  pending,        \* pending[s]: change notifications not yet delivered to s
  mon_cmds,       \* "config rm" commands sent and not yet applied
  aborted,        \* "" or the message of the ceph_assert that ended the OSD
  changes,        \* number of changes the operator has made
  nextId,         \* identity of the next work item
  returned,       \* the items dequeue handed out, in order
  last            \* what the last operation was given, did and returned

vars == << conf, is_rotational, monc, whoami, inst, pending, mon_cmds,
           aborted, changes, nextId, returned, last >>

num_shards == Cardinality(Shards)

\* ----------------------------------------------- configuration store
\* conf = [val, dflt, ovr, changed]: val holds the capacity keys and the
\* profile name; a QoS key has a default (dflt) and, when the operator or the
\* monitor set it, a value of its own (ovr); changed is the set of keys
\* altered since the last apply_changes.
Absent == 0 - 1
\* conf.get_val: a value set by the operator or the monitor wins over the
\* default.
GetVal(c, key) ==
  IF key \in QosKeys
    THEN IF c.ovr[key] # Absent THEN c.ovr[key] ELSE c.dflt[key]
    ELSE c.val[key]
IsWeightKey(key) ==
  key \in {Key(cl, "wgt") : cl \in QosClasses}
\* conf.set_val_default(key, text): the text is parsed to the option's type
\* and becomes the default; the key is marked changed when the value the key
\* reads as changes.
SetValDefault(c, key, text) ==
  LET v == IF IsWeightKey(key) THEN ParseNat(text) ELSE ParseDouble(text)
      c2 == [c EXCEPT !.dflt[key] = v]
  IN IF GetVal(c2, key) # GetVal(c, key)
       THEN [c2 EXCEPT !.changed = @ \cup {key}]
       ELSE c2

\* conf.apply_changes: every registered observer is notified of the tracked
\* keys that changed; w.posted collects the notifications of one operation.
ApplyChanges(w) ==
  IF w.conf.changed = {}
    THEN w
    ELSE [w EXCEPT !.posted = Append(@, w.conf.changed \cap TrackedKeys),
                   !.conf.changed = {}]

\* ------------------------------------------------- the scheduler instance
\* The methods below run inside one operation. Each maps a record w to the
\* record after the call: w.shard_id and w.self are the instance and its
\* fields, w.conf the configuration store, w.posted the notifications
\* apply_changes produced, w.writes the keys whose default the instance set,
\* w.applies the number of apply_changes calls, w.refreshes the number of
\* update_from_config calls, w.cmds the monitor commands sent, w.abort the
\* message of a failed ceph_assert ("" when none failed).

ClientAllocs(res, wgt, lim) == [res |-> res, wgt |-> wgt, lim |-> lim]
ClientInfo(r, w, l) == [reservation |-> r, weight |-> w, limit |-> l]
\* the "no minimum" and "no limit" values of a ClientInfo
default_min == [sentinel |-> "default_min"]
default_max == [sentinel |-> "default_max"]

\* get_res without the test for a zero fraction
get_res_always_multiplies(res, capacity_per_shard) ==
  Ratio(BigMulSmall(capacity_per_shard.num, res),
        capacity_per_shard.den * 100)

\* res * capacity_per_shard, res in hundredths
get_res(res, capacity_per_shard) ==
  IF res # 0
    THEN Ratio(BigMulSmall(capacity_per_shard.num, res),
               capacity_per_shard.den * 100)
    ELSE default_min
get_lim(lim, capacity_per_shard) ==
  IF lim # 0
    THEN Ratio(BigMulSmall(capacity_per_shard.num, lim),
               capacity_per_shard.den * 100)
    ELSE default_max

\* ClientRegistry::update_from_config: the registry read from the store
update_from_config(c, capacity_per_shard) ==
  LET info(cl) ==
        ClientInfo(get_res(GetVal(c, Key(cl, "res")), capacity_per_shard),
                   GetVal(c, Key(cl, "wgt")),
                   get_lim(GetVal(c, Key(cl, "lim")), capacity_per_shard))
  IN [default_external_client_info |-> info("client"),
      internal_client_infos |-> [cl \in InternalClasses |-> info(cl)],
      external_client_infos |-> << >>]

\* the call client_registry.update_from_config(conf,
\* osd_bandwidth_capacity_per_shard) of the constructor and the handler
RefreshRegistry(w) ==
  [w EXCEPT !.self.client_registry =
     update_from_config(w.conf, w.self.osd_bandwidth_capacity_per_shard),
            !.refreshes = @ + 1]

\* ClientRegistry::get_external_client
get_external_client(reg, client) ==
  IF client \in DOMAIN reg.external_client_infos
    THEN reg.external_client_infos[client]
    ELSE reg.default_external_client_info

\* ClientRegistry::get_info: the ClientInfo of a scheduling identity, or the
\* failed assertion
get_info(reg, id) ==
  CASE id.class_id = "immediate" -> [abort |-> "Cannot schedule immediate"]
    [] id.class_id = "client" ->
         [abort |-> "", info |-> get_external_client(reg, id.client_profile_id)]
    [] OTHER ->
         [abort |-> "", info |-> reg.internal_client_infos[id.class_id]]

\* set_osd_capacity_params_from_config without the two std::max calls
set_osd_capacity_params_unclamped(w) ==
  LET dev == IF is_rotational THEN "hdd" ELSE "ssd"
      osd_bandwidth_capacity ==
        GetVal(w.conf, "osd_mclock_max_sequential_bandwidth_" \o dev)
      osd_iop_capacity ==
        GetVal(w.conf, "osd_mclock_max_capacity_iops_" \o dev)
  IN [w EXCEPT
        !.self.osd_bandwidth_capacity = osd_bandwidth_capacity,
        !.self.osd_iop_capacity = osd_iop_capacity,
        !.self.osd_bandwidth_cost_per_io =
           Ratio(osd_bandwidth_capacity, osd_iop_capacity),
        !.self.osd_bandwidth_capacity_per_shard =
           Ratio(osd_bandwidth_capacity, num_shards)]

set_osd_capacity_params_from_config(w) ==
  LET dev == IF is_rotational THEN "hdd" ELSE "ssd"
      osd_bandwidth_capacity ==
        BigMax(ToBig(1),
               GetVal(w.conf, "osd_mclock_max_sequential_bandwidth_" \o dev))
      osd_iop_capacity ==
        Max(1, GetVal(w.conf, "osd_mclock_max_capacity_iops_" \o dev))
  IN [w EXCEPT
        !.self.osd_bandwidth_capacity = osd_bandwidth_capacity,
        !.self.osd_iop_capacity = osd_iop_capacity,
        !.self.osd_bandwidth_cost_per_io =
           Ratio(osd_bandwidth_capacity, osd_iop_capacity),
        !.self.osd_bandwidth_capacity_per_shard =
           Ratio(osd_bandwidth_capacity, num_shards)]

\* w.profile_read notes what the operation had done when it read the name
set_mclock_profile(w) ==
  [w EXCEPT !.self.mclock_profile = GetVal(w.conf, ProfileKey),
            !.profile_read = [writes |-> w.writes, applies |-> w.applies,
                              refreshes |-> w.refreshes]]

\* [res, wgt, lim] of each class, in hundredths
set_balanced_profile_allocations(w) ==
  [w EXCEPT !.self.client_allocs =
     [client |-> ClientAllocs(40, 100, 100),
      background_recovery |-> ClientAllocs(40, 100, 70),
      background_best_effort |-> ClientAllocs(20, 100, 0)]]
set_high_recovery_ops_profile_allocations(w) ==
  [w EXCEPT !.self.client_allocs =
     [client |-> ClientAllocs(30, 100, 80),
      background_recovery |-> ClientAllocs(60, 200, 0),
      background_best_effort |-> ClientAllocs(0, 100, 0)]]
set_high_client_ops_profile_allocations(w) ==
  [w EXCEPT !.self.client_allocs =
     [client |-> ClientAllocs(60, 500, 0),
      background_recovery |-> ClientAllocs(20, 100, 50),
      background_best_effort |-> ClientAllocs(20, 100, 0)]]

\* uint64_t(double)
ToUint64(d) == d \div 100

\* the set_val_default calls without those of the three limits
ProfileDefaults_without_limits(allocs) ==
  LET of(cl) ==
        << << Key(cl, "res"), DoubleToString(allocs[cl].res) >>,
           << Key(cl, "wgt"), NatToString(ToUint64(allocs[cl].wgt)) >> >>
  IN of("client") \o of("background_recovery")
       \o of("background_best_effort")

\* the nine set_val_default calls of set_profile_config, in order
ProfileDefaults(allocs) ==
  LET of(cl) ==
        << << Key(cl, "res"), DoubleToString(allocs[cl].res) >>,
           << Key(cl, "wgt"), NatToString(ToUint64(allocs[cl].wgt)) >>,
           << Key(cl, "lim"), DoubleToString(allocs[cl].lim) >> >>
  IN of("client") \o of("background_recovery")
       \o of("background_best_effort")

RECURSIVE SetDefaults(_, _)
SetDefaults(c, kvs) ==
  IF kvs = << >> THEN c
  ELSE SetDefaults(SetValDefault(c, Head(kvs)[1], Head(kvs)[2]), Tail(kvs))

\* cct->_conf.apply_changes(nullptr)
update_configuration(w) ==
  ApplyChanges([w EXCEPT !.applies = @ + 1])

\* set_profile_config without the test of the shard id
set_profile_config_any_shard(w) ==
  LET kvs == ProfileDefaults(w.self.client_allocs)
  IN update_configuration(
       [w EXCEPT !.conf = SetDefaults(w.conf, kvs),
                 !.writes = @ \cup {kvs[i][1] : i \in 1..Len(kvs)}])

set_profile_config(w) ==
  IF w.shard_id > 0
    THEN w
    ELSE LET kvs == ProfileDefaults(w.self.client_allocs)
         IN update_configuration(
              [w EXCEPT !.conf = SetDefaults(w.conf, kvs),
                        !.writes = @ \cup {kvs[i][1] : i \in 1..Len(kvs)}])

\* enable_mclock_profile_settings that treats a name it does not know as
\* custom
enable_mclock_profile_settings_lenient(w) ==
  CASE w.self.mclock_profile = "balanced" ->
         set_profile_config(set_balanced_profile_allocations(w))
    [] w.self.mclock_profile = "high_recovery_ops" ->
         set_profile_config(set_high_recovery_ops_profile_allocations(w))
    [] w.self.mclock_profile = "high_client_ops" ->
         set_profile_config(set_high_client_ops_profile_allocations(w))
    [] OTHER -> w

enable_mclock_profile_settings(w) ==
  CASE w.self.mclock_profile = "custom" -> w
    [] w.self.mclock_profile = "balanced" ->
         set_profile_config(set_balanced_profile_allocations(w))
    [] w.self.mclock_profile = "high_recovery_ops" ->
         set_profile_config(set_high_recovery_ops_profile_allocations(w))
    [] w.self.mclock_profile = "high_client_ops" ->
         set_profile_config(set_high_client_ops_profile_allocations(w))
    [] OTHER -> [w EXCEPT !.abort = "Invalid choice of mclock profile"]

\* mClockScheduler::mClockScheduler, after add_observer and the assertion
\* num_shards > 0
Constructor(w) ==
  LET a == set_mclock_profile(set_osd_capacity_params_from_config(w))
      b == enable_mclock_profile_settings(a)
  IN IF b.abort # "" THEN b ELSE RefreshRegistry(b)

NoKey == ""
\* the lambda get_changed_key of handle_conf_change: the first of qos_params
\* that is in the changed set
get_changed_key(changed) ==
  LET hit == {i \in 1..Len(qos_params) : qos_params[i] \in changed}
  IN IF hit = {} THEN NoKey
     ELSE qos_params[CHOOSE i \in hit : \A j \in hit : i <= j]

MonCommand(who, name) == [prefix |-> "config rm", who |-> who, name |-> name]

\* the loop over osds = {"osd", "osd.<whoami>"}: one start_mon_command each
RemoveKeyCommands(key) ==
  << MonCommand("osd", key), MonCommand("osd." \o NatToString(whoami), key) >>

\* the first if of handle_conf_change (an IOPS capacity key changed)
OnIopsChange(w, changed) ==
  IF changed \cap IopsKeys = {} THEN w
  ELSE LET a == set_osd_capacity_params_from_config(w)
           b == IF a.self.mclock_profile # "custom"
                  THEN enable_mclock_profile_settings(a) ELSE a
       IN IF b.abort # "" THEN b ELSE RefreshRegistry(b)

\* the second if made like the first: the profile settings are enabled again
OnBandwidthChange_like_iops(w, changed) ==
  IF changed \cap BwKeys = {} \/ w.abort # "" THEN w
  ELSE LET a == set_osd_capacity_params_from_config(w)
           b == IF a.self.mclock_profile # "custom"
                  THEN enable_mclock_profile_settings(a) ELSE a
       IN IF b.abort # "" THEN b ELSE RefreshRegistry(b)

\* the second if (a bandwidth capacity key changed)
OnBandwidthChange(w, changed) ==
  IF changed \cap BwKeys = {} \/ w.abort # "" THEN w
  ELSE RefreshRegistry(set_osd_capacity_params_from_config(w))

\* the third if (the profile name changed)
OnProfileChange(w, changed) ==
  IF ProfileKey \notin changed \/ w.abort # "" THEN w
  ELSE LET a == set_mclock_profile(w)
       IN IF a.self.mclock_profile = "custom" THEN a
          ELSE LET b == enable_mclock_profile_settings(a)
               IN IF b.abort # "" THEN b ELSE RefreshRegistry(b)

\* the last if without the refresh under the custom profile
OnQosChange_without_refresh(w, changed) ==
  LET key == get_changed_key(changed)
  IN IF key = NoKey \/ w.abort # "" THEN w
     ELSE IF w.self.mclock_profile = "custom" THEN w
     ELSE IF w.shard_id = 0 /\ monc
            THEN [w EXCEPT !.cmds = @ \o RemoveKeyCommands(key)]
            ELSE w

\* the last if with the commands sent by every shard that has a MonClient
OnQosChange_any_shard(w, changed) ==
  LET key == get_changed_key(changed)
  IN IF key = NoKey \/ w.abort # "" THEN w
     ELSE IF w.self.mclock_profile = "custom" THEN RefreshRegistry(w)
     ELSE IF monc
            THEN [w EXCEPT !.cmds = @ \o RemoveKeyCommands(key)]
            ELSE w

\* the last if (one of the nine QoS keys changed)
OnQosChange(w, changed) ==
  LET key == get_changed_key(changed)
  IN IF key = NoKey \/ w.abort # "" THEN w
     ELSE IF w.self.mclock_profile = "custom" THEN RefreshRegistry(w)
     ELSE IF w.shard_id = 0 /\ monc
            THEN [w EXCEPT !.cmds = @ \o RemoveKeyCommands(key)]
            ELSE w

handle_conf_change(w, changed) ==
  OnQosChange(
    OnProfileChange(
      OnBandwidthChange(OnIopsChange(w, changed), changed), changed), changed)

\* ------------------------------------------------------------ work items
\* An OpSchedulerItem: its identity, its scheduling class, its raw cost
\* (a signed int), the scaled cost set_qos_cost attached, and the call it
\* entered by.
ZeroCost == ToBig(0)
NoItem == [id |-> 0, class_id |-> "none", cost |-> 0, qos_cost |-> ZeroCost,
           via |-> "none"]
Item(id, cls, cost, via) ==
  [id |-> id, class_id |-> cls, cost |-> cost, qos_cost |-> ZeroCost,
   via |-> via]
\* get_scheduler_id: the operation class and the client profile of the item
get_scheduler_id(item) ==
  [class_id |-> item.class_id, client_profile_id |-> "default"]

\* ------------------------------------------------ the dmclock queue
\* The queue holds the requests submitted and not yet pulled.
\* add_request looks the client up through the registry callback
\* (get_info) and stores the request with its cost.
add_request(q, reg, item, id, cost) ==
  LET info == get_info(reg, id)
  IN IF info.abort # ""
       THEN [abort |-> info.abort, q |-> q]
       ELSE [abort |-> "",
             q |-> q \cup {[item |-> item, id |-> id, cost |-> cost]}]
\* pull_request: none when the queue is empty; otherwise a future time or
\* one of the requests, removed from the queue.
pull_request(q) ==
  IF q = {} THEN {[type |-> "none", request |-> NoItem, q |-> q]}
  ELSE {[type |-> "future", request |-> NoItem, q |-> q]}
         \cup {[type |-> "returning", request |-> r.item, q |-> q \ {r}]
                 : r \in q}
request_count(q) == Cardinality(q)

\* --------------------------------------------- enqueue, dequeue
\* immediate is a std::list: element 1 is its front, element Len its back.
push_front(l, x) == << x >> \o l
push_back(l, x) == Append(l, x)
back(l) == l[Len(l)]
pop_back(l) == SubSeq(l, 1, Len(l) - 1)

\* the outcomes of calc_scaled_cost(item_cost), each a uint32_t
calc_scaled_cost(self, item_cost) ==
  LET cost == ToBig(Max(1, item_cost))
  IN {WrapU32(BigAdd(cost_per_io, cost)) :
        cost_per_io \in CastU32(Trunc(self.osd_bandwidth_cost_per_io))}

NoResult == [kind |-> "no_result", item |-> NoItem]

\* enqueue with the immediate item pushed at the back of the list, the end
\* dequeue pops
enqueue_push_back(self, item) ==
  LET id == get_scheduler_id(item)
  IN IF id.class_id = "immediate"
       THEN {[self |-> [self EXCEPT !.immediate = push_back(@, item)],
              item |-> item, abort |-> ""]}
       ELSE {LET it == [item EXCEPT !.qos_cost = cost]
                 r == add_request(self.scheduler, self.client_registry,
                                  it, id, cost)
             IN [self |-> [self EXCEPT !.scheduler = r.q],
                 item |-> it, abort |-> r.abort]
               : cost \in calc_scaled_cost(self, item.cost)}

\* enqueue without the test for the immediate class
enqueue_all_to_mclock(self, item) ==
  LET id == get_scheduler_id(item)
  IN {LET it == [item EXCEPT !.qos_cost = cost]
          r == add_request(self.scheduler, self.client_registry,
                           it, id, cost)
      IN [self |-> [self EXCEPT !.scheduler = r.q],
          item |-> it, abort |-> r.abort]
        : cost \in calc_scaled_cost(self, item.cost)}

\* the outcomes of enqueue(item): the instance afterwards, the item as
\* stored, and the failed assertion if any
enqueue(self, item) ==
  LET id == get_scheduler_id(item)
  IN IF id.class_id = "immediate"
       THEN {[self |-> [self EXCEPT !.immediate = push_front(@, item)],
              item |-> item, abort |-> ""]}
       ELSE {LET it == [item EXCEPT !.qos_cost = cost]
                 r == add_request(self.scheduler, self.client_registry,
                                  it, id, cost)
             IN [self |-> [self EXCEPT !.scheduler = r.q],
                 item |-> it, abort |-> r.abort]
               : cost \in calc_scaled_cost(self, item.cost)}

\* enqueue_front with the item pushed at the front of the list
enqueue_front_push_front(self, item) ==
  [self EXCEPT !.immediate = push_front(@, item)]

enqueue_front(self, item) ==
  [self EXCEPT !.immediate = push_back(@, item)]

\* dequeue that pulls from the dmclock queue whenever it holds a request
dequeue_mclock_first(self) ==
  IF self.immediate # << >> /\ self.scheduler = {}
    THEN {[self |-> [self EXCEPT !.immediate = pop_back(@)],
           result |-> [kind |-> "Ready", item |-> back(self.immediate)],
           pulled |-> FALSE, abort |-> ""]}
    ELSE {CASE result.type = "future" ->
                 [self |-> self,
                  result |-> [kind |-> "Future", item |-> NoItem],
                  pulled |-> TRUE, abort |-> ""]
            [] result.type = "none" ->
                 [self |-> self, result |-> NoResult, pulled |-> TRUE,
                  abort |-> "Impossible, must have checked empty() first"]
            [] OTHER ->
                 [self |-> [self EXCEPT !.scheduler = result.q],
                  result |-> [kind |-> "Ready", item |-> result.request],
                  pulled |-> TRUE, abort |-> ""]
           : result \in pull_request(self.scheduler)}

\* dequeue that returns the item at the back of the list and leaves it there
dequeue_without_pop(self) ==
  IF self.immediate # << >>
    THEN {[self |-> self,
           result |-> [kind |-> "Ready", item |-> back(self.immediate)],
           pulled |-> FALSE, abort |-> ""]}
    ELSE {CASE result.type = "future" ->
                 [self |-> self,
                  result |-> [kind |-> "Future", item |-> NoItem],
                  pulled |-> TRUE, abort |-> ""]
            [] result.type = "none" ->
                 [self |-> self, result |-> NoResult, pulled |-> TRUE,
                  abort |-> "Impossible, must have checked empty() first"]
            [] OTHER ->
                 [self |-> [self EXCEPT !.scheduler = result.q],
                  result |-> [kind |-> "Ready", item |-> result.request],
                  pulled |-> TRUE, abort |-> ""]
           : result \in pull_request(self.scheduler)}

\* dequeue that returns the empty WorkItem when the dmclock queue reports
\* none, without the assertion
dequeue_return_none(self) ==
  IF self.immediate # << >>
    THEN {[self |-> [self EXCEPT !.immediate = pop_back(@)],
           result |-> [kind |-> "Ready", item |-> back(self.immediate)],
           pulled |-> FALSE, abort |-> ""]}
    ELSE {CASE result.type = "future" ->
                 [self |-> self,
                  result |-> [kind |-> "Future", item |-> NoItem],
                  pulled |-> TRUE, abort |-> ""]
            [] result.type = "none" ->
                 [self |-> self, result |-> [kind |-> "None", item |-> NoItem],
                  pulled |-> TRUE, abort |-> ""]
            [] OTHER ->
                 [self |-> [self EXCEPT !.scheduler = result.q],
                  result |-> [kind |-> "Ready", item |-> result.request],
                  pulled |-> TRUE, abort |-> ""]
           : result \in pull_request(self.scheduler)}

\* the outcomes of dequeue(): the WorkItem returned (Ready with the item, or
\* Future), whether the dmclock queue was pulled, the instance afterwards,
\* and the failed assertion if any
dequeue(self) ==
  IF self.immediate # << >>
    THEN {[self |-> [self EXCEPT !.immediate = pop_back(@)],
           result |-> [kind |-> "Ready", item |-> back(self.immediate)],
           pulled |-> FALSE, abort |-> ""]}
    ELSE {CASE result.type = "future" ->
                 [self |-> self,
                  result |-> [kind |-> "Future", item |-> NoItem],
                  pulled |-> TRUE, abort |-> ""]
            [] result.type = "none" ->
                 [self |-> self, result |-> NoResult, pulled |-> TRUE,
                  abort |-> "Impossible, must have checked empty() first"]
            [] OTHER ->
                 [self |-> [self EXCEPT !.scheduler = result.q],
                  result |-> [kind |-> "Ready", item |-> result.request],
                  pulled |-> TRUE, abort |-> ""]
           : result \in pull_request(self.scheduler)}

\* ------------------------------------------------------------------ state
NoInfo == ClientInfo(default_min, 0, default_max)
NoRegistry ==
  [default_external_client_info |-> NoInfo,
   internal_client_infos |-> [cl \in InternalClasses |-> NoInfo],
   external_client_infos |-> << >>]
\* The fields of an instance that is not constructed yet. update_calls is
\* the number of ClientInfo::update calls the update_from_config in progress
\* has made (0 when none is in progress), update_from and update_to the
\* registry before it started and the registry it is writing.
NewInstance ==
  [constructed |-> FALSE,
   update_calls |-> 0,
   update_from |-> NoRegistry,
   update_to |-> NoRegistry,
   mclock_profile |-> "",
   client_allocs |-> [cl \in QosClasses |-> ClientAllocs(0, 0, 0)],
   osd_bandwidth_capacity |-> ToBig(1),
   osd_iop_capacity |-> 1,
   osd_bandwidth_cost_per_io |-> Ratio(ToBig(1), 1),
   osd_bandwidth_capacity_per_shard |-> Ratio(ToBig(1), num_shards),
   client_registry |-> NoRegistry,
   immediate |-> << >>,
   scheduler |-> {}]

\* the defaults of the nine QoS options before any profile is applied
InitialDefaults ==
  [k \in QosKeys |-> IF IsWeightKey(k) THEN 1 ELSE 0]

NoShard == 0 - 1
\* the profile name was not read
NoRead == [writes |-> {}, applies |-> 0 - 1, refreshes |-> 0 - 1]
NoLast ==
  [op |-> "init", shard |-> NoShard, item |-> NoItem, result |-> NoResult,
   pulled |-> FALSE, prev_immediate |-> << >>, prev_count |-> 0,
   changed |-> {}, profile |-> "", writes |-> {}, applies |-> 0,
   refreshes |-> 0, cmds |-> << >>, profile_read |-> NoRead]

\* The node before its schedulers are constructed: the store holds a profile
\* name and the capacities of both device types.
InitOf(profiles, bw_hdd, bw_ssd, iops_hdd, iops_ssd, rotational, monitors) ==
  /\ \E p \in profiles, bh \in bw_hdd, bs \in bw_ssd,
        ih \in iops_hdd, is \in iops_ssd :
       conf = [val |-> [k \in IopsKeys \cup BwKeys \cup {ProfileKey} |->
                         CASE k = ProfileKey -> p
                           [] k = "osd_mclock_max_sequential_bandwidth_hdd" -> bh
                           [] k = "osd_mclock_max_sequential_bandwidth_ssd" -> bs
                           [] k = "osd_mclock_max_capacity_iops_hdd" -> ih
                           [] OTHER -> is],
               dflt |-> InitialDefaults,
               ovr |-> [k \in QosKeys |-> Absent],
               changed |-> {}]
  /\ is_rotational \in rotational
  /\ monc \in monitors
  /\ whoami \in {3}
  /\ inst = [s \in Shards |-> NewInstance]
  /\ pending = [s \in Shards |-> << >>]
  /\ mon_cmds = {}
  /\ aborted = ""
  /\ changes = 0
  /\ nextId = 1
  /\ returned = << >>
  /\ last = NoLast

World(s) ==
  [shard_id |-> s, self |-> inst[s], conf |-> conf, posted |-> << >>,
   writes |-> {}, applies |-> 0, refreshes |-> 0, cmds |-> << >>,
   profile_read |-> NoRead, abort |-> ""]

\* The state after an operation of shard s that left w, with rest the
\* notifications s still has to handle: the observers registered are told
\* what apply_changes found changed, the monitor commands are on their way.
Commit(s, w, rest, op, changed) ==
  /\ conf' = w.conf
  /\ inst' = [inst EXCEPT ![s] = w.self]
  /\ pending' = [t \in Shards |->
                  LET base == IF t = s THEN rest ELSE pending[t]
                  IN IF inst'[t].constructed THEN base \o w.posted ELSE base]
  /\ mon_cmds' = mon_cmds \cup {w.cmds[i] : i \in 1..Len(w.cmds)}
  /\ aborted' = w.abort
  /\ last' = [NoLast EXCEPT !.op = op, !.shard = s, !.changed = changed,
                            !.profile = inst[s].mclock_profile,
                            !.writes = w.writes, !.applies = w.applies,
                            !.refreshes = w.refreshes, !.cmds = w.cmds,
                            !.profile_read = w.profile_read]
  /\ UNCHANGED << is_rotational, monc, whoami, changes, nextId, returned >>

\* ---------------------------------------------------------------- actions
\* new mClockScheduler(cct, whoami, num_shards, s, is_rotational, monc)
Construct(s) ==
  /\ aborted = ""
  /\ ~inst[s].constructed
  /\ LET w0 == [World(s) EXCEPT !.self.constructed = TRUE]
     IN Commit(s, Constructor(w0), pending[s], "construct", {})

\* the configuration subsystem calls handle_conf_change(conf, changed) of
\* shard s with the oldest notification it holds for s
HandleConfChange(s) ==
  /\ aborted = ""
  /\ inst[s].constructed
  /\ inst[s].update_calls = 0
  /\ pending[s] # << >>
  /\ LET changed == Head(pending[s])
     IN Commit(s, handle_conf_change(World(s), changed), Tail(pending[s]),
               "conf_change", changed)

\* update_from_config after n of its three ClientInfo::update calls: the
\* default external client first, then background_recovery, then
\* background_best_effort
PartialRegistry(from, to, n) ==
  [from EXCEPT
     !.default_external_client_info =
        IF n >= 1 THEN to.default_external_client_info ELSE @,
     !.internal_client_infos =
        [cl \in InternalClasses |->
           IF \/ n >= 2 /\ cl = "background_recovery"
              \/ n >= 3 /\ cl = "background_best_effort"
             THEN to.internal_client_infos[cl] ELSE @[cl]]]

\* handle_conf_change run by the configuration thread while the shard's own
\* thread goes on: the handler has run up to the first ClientInfo::update of
\* its update_from_config. The configuration subsystem does not call the
\* handler again before it returns.
BeginConfChange(s) ==
  /\ aborted = ""
  /\ inst[s].constructed
  /\ inst[s].update_calls = 0
  /\ pending[s] # << >>
  /\ LET changed == Head(pending[s])
         w == handle_conf_change(World(s), changed)
         to == w.self.client_registry
     IN /\ w.refreshes = 1
        /\ w.abort = ""
        /\ Commit(s,
                  [w EXCEPT !.self.client_registry =
                               PartialRegistry(inst[s].client_registry, to, 1),
                            !.self.update_calls = 1,
                            !.self.update_from = inst[s].client_registry,
                            !.self.update_to = to],
                  Tail(pending[s]), "conf_change_begin", changed)

\* the next ClientInfo::update of the update_from_config in progress
UpdateStep(s) ==
  /\ aborted = ""
  /\ inst[s].update_calls \in {1, 2}
  /\ inst' = [inst EXCEPT
               ![s].client_registry =
                  PartialRegistry(inst[s].update_from, inst[s].update_to,
                                  inst[s].update_calls + 1),
               ![s].update_calls = IF @ = 2 THEN 0 ELSE @ + 1]
  /\ last' = [NoLast EXCEPT !.op = "update_step", !.shard = s]
  /\ UNCHANGED << conf, is_rotational, monc, whoami, pending, mon_cmds,
                  aborted, changes, nextId, returned >>

\* The store after the operator or the monitor changed it: the observers
\* are notified of the keys whose value changed.
StoreChange(c, op) ==
  /\ conf' = [c EXCEPT !.changed = {}]
  /\ pending' = [t \in Shards |->
                  IF inst[t].constructed /\ c.changed # {}
                    THEN Append(pending[t], c.changed) ELSE pending[t]]
  /\ last' = [NoLast EXCEPT !.op = op, !.changed = c.changed]
  /\ UNCHANGED << is_rotational, monc, whoami, inst, aborted, nextId,
                  returned >>

\* the operator sets a capacity option or the profile name
OperatorSet(key, v) ==
  /\ aborted = ""
  /\ changes < MaxChanges
  /\ changes' = changes + 1
  /\ v # conf.val[key]
  /\ StoreChange([conf EXCEPT !.val[key] = v, !.changed = {key}],
                 "operator")
  /\ UNCHANGED mon_cmds

\* the operator sets one QoS option by hand
OperatorSetQos(key, v) ==
  /\ aborted = ""
  /\ changes < MaxChanges
  /\ changes' = changes + 1
  /\ v # conf.ovr[key]
  /\ LET c == [conf EXCEPT !.ovr[key] = v]
     IN StoreChange([c EXCEPT !.changed =
                        IF GetVal(c, key) # GetVal(conf, key)
                          THEN {key} ELSE {}], "operator")
  /\ UNCHANGED mon_cmds

\* the operator changes several options at once (a configuration file or
\* several options injected together): edits maps each option to its new
\* value, and the observers get one notification naming the options whose
\* value changed
OperatorSetMany(edits) ==
  /\ aborted = ""
  /\ changes < MaxChanges
  /\ changes' = changes + 1
  /\ LET c == [conf EXCEPT
                 !.val = [k \in DOMAIN conf.val |->
                            IF k \in DOMAIN edits THEN edits[k]
                                                  ELSE conf.val[k]],
                 !.ovr = [k \in DOMAIN conf.ovr |->
                            IF k \in DOMAIN edits THEN edits[k]
                                                  ELSE conf.ovr[k]]]
         changed == {k \in DOMAIN edits : GetVal(c, k) # GetVal(conf, k)}
     IN /\ changed # {}
        /\ StoreChange([c EXCEPT !.changed = changed], "operator")
  /\ UNCHANGED mon_cmds

\* the monitor applies one "config rm": the option goes back to its default
MonRemove(cmd) ==
  /\ aborted = ""
  /\ cmd \in mon_cmds
  /\ mon_cmds' = mon_cmds \ {cmd}
  /\ UNCHANGED changes
  /\ LET c == [conf EXCEPT !.ovr[cmd.name] = Absent]
     IN StoreChange([c EXCEPT !.changed =
                        IF GetVal(c, cmd.name) # GetVal(conf, cmd.name)
                          THEN {cmd.name} ELSE {}], "mon")

\* The state after a queue operation of shard s.
QueueStep(s, self, op, item, result, pulled, abort) ==
  /\ inst' = [inst EXCEPT ![s] = self]
  /\ aborted' = abort
  /\ last' = [NoLast EXCEPT !.op = op, !.shard = s, !.item = item,
                            !.result = result, !.pulled = pulled,
                            !.prev_immediate = inst[s].immediate,
                            !.prev_count = request_count(inst[s].scheduler)]
  /\ returned' = IF result.kind = "Ready"
                   THEN Append(returned, result.item) ELSE returned
  /\ UNCHANGED << conf, is_rotational, monc, whoami, pending, mon_cmds,
                  changes >>

Enqueue(s, cls, cost) ==
  /\ aborted = ""
  /\ inst[s].constructed
  /\ nextId <= MaxItems
  /\ nextId' = nextId + 1
  /\ \E o \in enqueue(inst[s], Item(nextId, cls, cost, "enqueue")) :
       QueueStep(s, o.self, "enqueue", o.item, NoResult, FALSE, o.abort)

EnqueueFront(s, cls, cost) ==
  /\ aborted = ""
  /\ inst[s].constructed
  /\ nextId <= MaxItems
  /\ nextId' = nextId + 1
  /\ LET item == Item(nextId, cls, cost, "enqueue_front")
     IN QueueStep(s, enqueue_front(inst[s], item), "enqueue_front", item,
                  NoResult, FALSE, "")

Dequeue(s) ==
  /\ aborted = ""
  /\ inst[s].constructed
  /\ UNCHANGED nextId
  /\ \E o \in dequeue(inst[s]) :
       QueueStep(s, o.self, "dequeue", NoItem, o.result, o.pulled, o.abort)

\* ---------------------------------------------------------- specifications
Bandwidth200 == ToBig(200)
\* 2^32 - 1 bytes per second
BandwidthU32Max == UINT32_MAX
BwValues == {ToBig(0), Bandwidth200, BandwidthU32Max}
IopsValues == {0, 100}
ConfBwValues == {ToBig(0), Bandwidth200}
CostValues == {0 - 1, 0, 10}

\* SpecQueue: the enqueue / dequeue protocol of one instance.
QueueShards == {0}
InitQueue ==
  InitOf({"balanced"}, {Bandwidth200}, {Bandwidth200}, {100}, {100},
         {TRUE}, {TRUE})
NextQueue ==
  \E s \in QueueShards :
    \/ Construct(s)
    \/ \E cls \in Classes : Enqueue(s, cls, 10)
    \/ \E cls \in Classes : EnqueueFront(s, cls, 10)
    \/ Dequeue(s)
SpecQueue == InitQueue /\ [][NextQueue]_vars

\* SpecCost: the capacity model and cost normalization of one instance, of
\* either device type, while the operator changes capacity options (the
\* bandwidth of a rotational device and the IOPS of both device types).
MaxCostItems == 1
CapacityValues(key) == IF key \in BwKeys THEN BwValues ELSE IopsValues
CostKeys == {"osd_mclock_max_sequential_bandwidth_hdd",
             "osd_mclock_max_capacity_iops_hdd",
             "osd_mclock_max_capacity_iops_ssd"}
CostClasses == {"immediate", "client"}
InitCost ==
  InitOf({"custom"}, BwValues, {Bandwidth200}, IopsValues, IopsValues,
         {TRUE, FALSE}, {FALSE})
NextCost ==
  \E s \in QueueShards :
    \/ Construct(s)
    \/ \E key \in CostKeys :
         \E v \in CapacityValues(key) : OperatorSet(key, v)
    \/ HandleConfChange(s)
    \/ \E cls \in CostClasses, cost \in CostValues :
         nextId <= MaxCostItems /\ Enqueue(s, cls, cost)
SpecCost == InitCost /\ [][NextCost]_vars

\* SpecRace: one instance under the balanced profile whose enqueue / dequeue
\* thread runs while the configuration thread handles a change of the
\* bandwidth capacity.
MaxRaceItems == 2
InitRace ==
  InitOf({"balanced"}, {Bandwidth200}, {Bandwidth200}, {100}, {100},
         {TRUE}, {FALSE})
NextRace ==
  \E s \in QueueShards :
    \/ Construct(s)
    \/ \E v \in ConfBwValues :
         OperatorSet("osd_mclock_max_sequential_bandwidth_hdd", v)
    \/ HandleConfChange(s)
    \/ BeginConfChange(s)
    \/ UpdateStep(s)
    \/ \E cls \in {"immediate", "client", "background_recovery"} :
         nextId <= MaxRaceItems /\ Enqueue(s, cls, 10)
    \/ nextId <= MaxRaceItems /\ EnqueueFront(s, "client", 10)
    \/ Dequeue(s)
SpecRace == InitRace /\ [][NextRace]_vars

\* SpecSwitch: a node started under the balanced profile whose operator
\* switches to another built-in profile once every shard is constructed.
SwitchProfiles == {"high_recovery_ops", "high_client_ops"}
InitSwitch ==
  InitOf({"balanced"}, {Bandwidth200}, {Bandwidth200}, {100}, {100},
         {TRUE}, {TRUE, FALSE})
NextSwitch ==
  \/ \E s \in Shards : Construct(s)
  \/ \E s \in Shards : HandleConfChange(s)
  \/ \E p \in SwitchProfiles :
       /\ \A s \in Shards : inst[s].constructed
       /\ OperatorSet(ProfileKey, p)
  \/ \E cmd \in mon_cmds : MonRemove(cmd)
SpecSwitch == InitSwitch /\ [][NextSwitch]_vars

\* SpecConf: construction and live reconfiguration of the shards of one
\* node: the operator changes the profile, the capacity of the device and
\* single QoS options; the instances handle the notifications in any order;
\* the monitor applies the "config rm" commands it was sent.
\* the values the operator sets a QoS option to, in hundredths for a
\* reservation or a limit
ManualValue(key) == IF IsWeightKey(key) THEN 3 ELSE 50
\* the options the operator sets by hand: one of each class and of each
\* kind, the first and the last of qos_params among them
ManualKeys == {Key("client", "res"), Key("background_recovery", "wgt"),
               Key("background_best_effort", "lim")}
InitConf ==
  InitOf(Profiles, {Bandwidth200}, {Bandwidth200}, {100}, {100},
         {TRUE}, {TRUE, FALSE})
NextConf ==
  \/ \E s \in Shards : Construct(s)
  \/ \E s \in Shards : HandleConfChange(s)
  \/ \E p \in Profiles : OperatorSet(ProfileKey, p)
  \/ \E v \in ConfBwValues :
       OperatorSet("osd_mclock_max_sequential_bandwidth_hdd", v)
  \/ \E v \in IopsValues : OperatorSet("osd_mclock_max_capacity_iops_hdd", v)
  \/ \E key \in ManualKeys : OperatorSetQos(key, ManualValue(key))
  \/ \E cmd \in mon_cmds : MonRemove(cmd)
SpecConf == InitConf /\ [][NextConf]_vars

\* SpecMulti: as SpecConf, with a profile name the scheduler does not know
\* and with the operator changing one option or several options at once.
UnknownProfile == "turbo"
MultiEdits ==
  { Key("background_best_effort", "lim") :> 50,
    Key("client", "res") :> 50 @@ Key("background_best_effort", "lim") :> 50,
    Key("client", "res") :> 50 @@ "osd_mclock_max_capacity_iops_hdd" :> 0,
    Key("client", "res") :> 50 @@ ProfileKey :> "high_client_ops",
    Key("client", "res") :> 50 @@ ProfileKey :> "custom",
    ProfileKey :> UnknownProfile,
    "osd_mclock_max_capacity_iops_hdd" :> 0 @@ ProfileKey :> UnknownProfile }
InitMulti ==
  InitOf({"custom", "balanced", "high_client_ops", UnknownProfile},
         {Bandwidth200}, {Bandwidth200}, {100}, {100}, {TRUE}, {TRUE, FALSE})
NextMulti ==
  \/ \E s \in Shards : Construct(s)
  \/ \E s \in Shards : HandleConfChange(s)
  \/ \E edits \in MultiEdits : OperatorSetMany(edits)
  \/ \E cmd \in mon_cmds : MonRemove(cmd)
SpecMulti == InitMulti /\ [][NextMulti]_vars

\* ------------------------------------------------------- enqueue / dequeue
\* C1 (bypass preemption): a dequeue made while the bypass queue holds an
\* item returns Ready with the item at the serving end of the bypass queue,
\* does not pull the dmclock queue and leaves its requests as they were; a
\* request of the dmclock queue is returned only when the bypass queue is
\* empty.
C1_BypassPreemption ==
  [][\A s \in Shards :
       (last'.op = "dequeue" /\ last'.shard = s) =>
         /\ inst[s].immediate # << >> =>
              /\ last'.result.kind = "Ready"
              /\ last'.result.item = inst[s].immediate[Len(inst[s].immediate)]
              /\ Len(inst'[s].immediate) = Len(inst[s].immediate) - 1
              /\ ~last'.pulled
              /\ inst'[s].scheduler = inst[s].scheduler
              /\ request_count(inst'[s].scheduler) = last'.prev_count
         /\ (/\ last'.result.kind = "Ready"
             /\ \E r \in inst[s].scheduler : r.item.id = last'.result.item.id)
              => inst[s].immediate = << >>]_vars
\* a dequeue served from the bypass queue while the dmclock queue held work
C1_Witness ==
  /\ last.op = "dequeue"
  /\ last.result.kind = "Ready"
  /\ last.prev_immediate # << >>
  /\ last.prev_count > 0
  /\ ~last.pulled

\* C2 (priority requeue): enqueue_front(X) immediately followed by dequeue()
\* on the same instance returns Ready(X), whatever the class of X and
\* whatever the queues held, and the bypass queue is then exactly as it was
\* before the enqueue_front.
C2_EnqueueFrontServedNext ==
  [][(last.op = "enqueue_front" /\ last'.op = "dequeue"
        /\ last'.shard = last.shard) =>
       /\ last'.result = [kind |-> "Ready", item |-> last.item]
       /\ inst'[last.shard].immediate = last.prev_immediate
       /\ aborted' = ""]_vars
\* a requeued item that is not of the immediate class, returned ahead of two
\* items that waited in the bypass queue, with work in the dmclock queue
C2_Witness ==
  /\ last.op = "dequeue"
  /\ last.result.kind = "Ready"
  /\ last.result.item.via = "enqueue_front"
  /\ last.result.item.class_id # "immediate"
  /\ last.result.item.id = nextId - 1
  /\ Len(last.prev_immediate) >= 2
  /\ last.prev_count > 0

ImmediateByEnqueue(it) == it.class_id = "immediate" /\ it.via = "enqueue"
\* C3 (FIFO): of two immediate items submitted through enqueue, the one
\* submitted first (the smaller id) is returned first: when one of them has
\* been returned, no such item submitted before it still waits in the
\* bypass queue, and those returned were returned in the order submitted.
C3_BypassFifo ==
  \A j \in 1..Len(returned) :
    ImmediateByEnqueue(returned[j]) =>
      /\ \A s \in Shards : \A k \in 1..Len(inst[s].immediate) :
           ImmediateByEnqueue(inst[s].immediate[k])
             => inst[s].immediate[k].id > returned[j].id
      /\ \A i \in 1..Len(returned) :
           (ImmediateByEnqueue(returned[i])
              /\ returned[i].id < returned[j].id) => i < j
\* two immediate items returned in order with a requeued item between them
C3_Witness ==
  \E i, j, k \in 1..Len(returned) :
    /\ i < j /\ j < k
    /\ ImmediateByEnqueue(returned[i])
    /\ returned[j].via = "enqueue_front"
    /\ ImmediateByEnqueue(returned[k])
    /\ returned[j].id > returned[k].id

\* C4 (no QoS tag for immediate): no request of the dmclock queue has the
\* immediate class, no immediate item carries a scaled cost, no dequeue
\* returns an immediate item out of the dmclock queue, and the assertion of
\* get_info has not fired.
C4_ImmediateNeverTagged ==
  /\ aborted # "Cannot schedule immediate"
  /\ \A s \in Shards :
       /\ \A r \in inst[s].scheduler :
            r.id.class_id # "immediate" /\ r.item.class_id # "immediate"
       /\ \A k \in 1..Len(inst[s].immediate) :
            inst[s].immediate[k].class_id = "immediate"
              => inst[s].immediate[k].qos_cost = ZeroCost
  /\ \A j \in 1..Len(returned) :
       returned[j].class_id = "immediate" => returned[j].qos_cost = ZeroCost
  /\ (last.op = "dequeue" /\ last.pulled /\ last.result.kind = "Ready")
       => last.result.item.class_id # "immediate"
\* an immediate item was enqueued while the dmclock queue held requests
C4_Witness ==
  /\ last.op = "enqueue"
  /\ last.item.class_id = "immediate"
  /\ last.prev_count > 0
  /\ inst[last.shard].immediate # << >>

\* C5 (dequeue outcomes): a dequeue made with the bypass queue and the
\* dmclock queue both empty fails its assertion and returns nothing; a
\* dequeue made with an item in either returns Ready or Future and fails no
\* assertion.
C5_DequeueOutcome ==
  [][\A s \in Shards :
       (last'.op = "dequeue" /\ last'.shard = s) =>
         IF inst[s].immediate = << >> /\ inst[s].scheduler = {}
           THEN /\ aborted' = "Impossible, must have checked empty() first"
                /\ last'.result = NoResult
           ELSE /\ aborted' = ""
                /\ last'.result.kind \in {"Ready", "Future"}
                /\ last'.result.kind = "Ready"
                     => last'.result.item # NoItem]_vars
\* the assertion of dequeue has fired
C5_Witness ==
  /\ aborted = "Impossible, must have checked empty() first"
  /\ last.op = "dequeue"
  /\ last.prev_immediate = << >>
  /\ last.prev_count = 0

\* ------------------------------------------------------ cost normalization
\* floor(bandwidth / IOPS) + max(1, c) over the integers, from the clamped
\* capacities the instance last read
ExactScaledCost(self, c) ==
  BigAdd(BigDivSmall(self.osd_bandwidth_capacity, self.osd_iop_capacity),
         ToBig(Max(1, c)))
\* C6 (cost normalization): every enqueue of an item that is not immediate
\* attaches to the item, and submits to the dmclock queue, the cost
\* floor(bandwidth / IOPS) + max(1, c) for the raw cost c of the item and the
\* clamped capacities in force.
C6_ScaledCostExact ==
  [][\A s \in Shards :
       (last'.op = "enqueue" /\ last'.shard = s
          /\ last'.item.class_id # "immediate") =>
         /\ last'.item.qos_cost = ExactScaledCost(inst[s], last'.item.cost)
         /\ \E r \in inst'[s].scheduler :
              /\ r.item = last'.item
              /\ r.cost = ExactScaledCost(inst[s], last'.item.cost)]_vars

\* ------------------------------------------------ registry and profiles
\* the ClientInfo the claim gives class cl for the values configured in c and
\* the capacity per shard cap
TranslatedInfo(c, cl, cap) ==
  LET res == GetVal(c, Key(cl, "res"))
      lim == GetVal(c, Key(cl, "lim"))
  IN [reservation |-> IF res # 0
                        THEN Ratio(BigMulSmall(cap.num, res), cap.den * 100)
                        ELSE default_min,
      weight |-> GetVal(c, Key(cl, "wgt")),
      limit |-> IF lim # 0
                  THEN Ratio(BigMulSmall(cap.num, lim), cap.den * 100)
                  ELSE default_max]
IsZeroAmount(x) == x # default_min /\ x # default_max /\ x.num = ToBig(0)
\* C7 (fraction to absolute): after an operation that called
\* update_from_config, each of the three classes holds reservation =
\* res_frac * capacity_per_shard for a nonzero res_frac and the no-minimum
\* value for zero, limit = lim_frac * capacity_per_shard for a nonzero
\* lim_frac and the no-limit value for zero, and the configured weight; no
\* stored reservation or limit is an absolute 0.
C7_FractionToAbsolute ==
  [][\A s \in Shards :
       (last'.shard = s /\ last'.refreshes > 0 /\ aborted' = "") =>
         LET reg == inst'[s].client_registry
             cap == Ratio(inst'[s].osd_bandwidth_capacity, num_shards)
         IN /\ reg.default_external_client_info
                 = TranslatedInfo(conf', "client", cap)
            /\ \A cl \in InternalClasses :
                 reg.internal_client_infos[cl] = TranslatedInfo(conf', cl, cap)
            /\ \A info \in {reg.default_external_client_info}
                    \cup {reg.internal_client_infos[cl] : cl \in InternalClasses} :
                 ~IsZeroAmount(info.reservation) /\ ~IsZeroAmount(info.limit)]_vars
\* a registry refreshed from a zero and a nonzero reservation and from a zero
\* and a nonzero limit
C7_Witness ==
  \E s \in Shards :
    LET reg == inst[s].client_registry
    IN /\ last.shard = s /\ last.refreshes > 0
       /\ reg.default_external_client_info.reservation # default_min
       /\ reg.default_external_client_info.limit # default_max
       /\ reg.internal_client_infos["background_best_effort"].reservation
            = default_min
       /\ reg.internal_client_infos["background_best_effort"].limit
            = default_max

\* the table of section 4.2: [res, weight, lim] of client,
\* background_recovery and background_best_effort, fractions in hundredths
ProfileTable(p) ==
  CASE p = "balanced" ->
         << 40, 1, 100,   40, 1, 70,   20, 1, 0 >>
    [] p = "high_recovery_ops" ->
         << 30, 1, 80,   60, 2, 0,   0, 1, 0 >>
    [] p = "high_client_ops" ->
         << 60, 5, 0,   20, 1, 50,   20, 1, 0 >>
\* C8 (profile defaults): when shard 0 activates a profile other than custom,
\* at construction or on a change of the profile name, the defaults of the
\* nine QoS options are afterwards exactly the table of that profile.
C8_ProfileDefaults ==
  [][(/\ last'.shard = 0
      /\ aborted' = ""
      /\ \/ last'.op = "construct"
         \/ last'.op = "conf_change" /\ ProfileKey \in last'.changed
      /\ inst'[0].mclock_profile # "custom") =>
       \A i \in 1..Len(qos_params) :
         conf'.dflt[qos_params[i]] = ProfileTable(inst'[0].mclock_profile)[i]]_vars
\* shard 0 switched from balanced to high_client_ops
C8_Witness ==
  /\ last.op = "conf_change" /\ last.shard = 0
  /\ ProfileKey \in last.changed
  /\ last.profile = "balanced"
  /\ inst[0].mclock_profile = "high_client_ops"
  /\ last.writes = QosKeys

\* C9 (single writer): an operation that sets a default, changes the stored
\* defaults or calls apply_changes is an operation of the instance of
\* shard 0.
C9_OnlyShardZeroWrites ==
  [][(last'.writes # {} \/ last'.applies > 0 \/ conf'.dflt # conf.dflt) =>
       (last'.shard = 0 /\ last'.op \in {"construct", "conf_change"})]_vars
\* shard 1 handled a change to another profile and wrote nothing
C9_Witness ==
  /\ last.op = "conf_change" /\ last.shard = 1
  /\ ProfileKey \in last.changed
  /\ inst[1].mclock_profile \notin {"custom", last.profile}
  /\ last.refreshes > 0
  /\ last.writes = {} /\ last.applies = 0

\* C10 (manual edit under a profile): a notification naming exactly one QoS
\* key, handled while the profile of the instance is not custom, makes the
\* instance send "config rm" of that key for "osd" and for "osd.<whoami>",
\* these two commands and no other, when it is shard 0 and has a MonClient,
\* and no command otherwise.
C10_ManualEditRejected ==
  [][\A s \in Shards : \A key \in QosKeys :
       (/\ last'.op = "conf_change" /\ last'.shard = s
        /\ last'.changed = {key}
        /\ inst[s].mclock_profile # "custom") =>
         IF s = 0 /\ monc
           THEN /\ whoami = 3
                /\ last'.cmds =
                     << [prefix |-> "config rm", who |-> "osd", name |-> key],
                        [prefix |-> "config rm", who |-> "osd.3",
                         name |-> key] >>
           ELSE last'.cmds = << >>]_vars
\* shard 0 sent the two commands for an option the operator set by hand
C10_Witness ==
  /\ last.op = "conf_change" /\ last.shard = 0
  /\ last.changed = {Key("background_best_effort", "lim")}
  /\ conf.ovr[Key("background_best_effort", "lim")] # Absent
  /\ last.profile = "balanced"
  /\ monc
  /\ Len(last.cmds) = 2

\* --------------------------------------------------------- capacity model
\* the bandwidth and the IOPS options of the device type of the node
DeviceBandwidth(c) ==
  IF is_rotational THEN c.val["osd_mclock_max_sequential_bandwidth_hdd"]
                   ELSE c.val["osd_mclock_max_sequential_bandwidth_ssd"]
DeviceIops(c) ==
  IF is_rotational THEN c.val["osd_mclock_max_capacity_iops_hdd"]
                   ELSE c.val["osd_mclock_max_capacity_iops_ssd"]
\* C11 (capacity clamping): after construction and after every handled
\* change of a capacity option, cost-per-IO is max(1, bw) / max(1, iops) and
\* capacity-per-shard is max(1, bw) / num_shards for the configured values of
\* the node's device type; every constructed instance holds quotients with a
\* positive numerator and a positive denominator.
C11_CapacityClamped ==
  [][/\ \A s \in Shards :
          (/\ last'.shard = s /\ aborted' = ""
           /\ \/ last'.op = "construct"
              \/ /\ last'.op = "conf_change"
                 /\ last'.changed \cap (IopsKeys \cup BwKeys) # {}) =>
            LET bw == IF DeviceBandwidth(conf') = ToBig(0)
                        THEN ToBig(1) ELSE DeviceBandwidth(conf')
                iops == IF DeviceIops(conf') < 1 THEN 1 ELSE DeviceIops(conf')
            IN /\ inst'[s].osd_bandwidth_cost_per_io = Ratio(bw, iops)
               /\ inst'[s].osd_bandwidth_capacity_per_shard
                    = Ratio(bw, num_shards)
     /\ \A s \in Shards :
          inst'[s].constructed =>
            /\ inst'[s].osd_bandwidth_cost_per_io.num # ToBig(0)
            /\ inst'[s].osd_bandwidth_cost_per_io.den >= 1
            /\ inst'[s].osd_bandwidth_capacity_per_shard.num # ToBig(0)
            /\ inst'[s].osd_bandwidth_capacity_per_shard.den >= 1]_vars
\* an instance recomputed its capacities from a bandwidth and an IOPS
\* capacity both configured as 0
C11_Witness ==
  /\ last.op = "conf_change"
  /\ last.changed \cap (IopsKeys \cup BwKeys) # {}
  /\ DeviceBandwidth(conf) = ToBig(0)
  /\ DeviceIops(conf) = 0
  /\ inst[0].osd_bandwidth_cost_per_io = Ratio(ToBig(1), 1)

\* ---------------------------------------------------------- profile names
\* C12 (unrecognized profile is fatal): while the OSD has not aborted, the
\* profile name stored by every constructed instance is custom, balanced,
\* high_recovery_ops or high_client_ops; a construction or a handled
\* profile-name notification that reads any other name ends in a failed
\* assertion, and from the read of the name to the assertion no default is
\* set, apply_changes is not called and the registry is not refreshed.
C12_UnknownProfileFatal ==
  [][/\ aborted' = "" =>
          \A s \in Shards :
            inst'[s].constructed =>
              inst'[s].mclock_profile \in {"custom", "balanced",
                                          "high_recovery_ops",
                                          "high_client_ops"}
     /\ \A s \in Shards :
          (/\ last'.shard = s
           /\ \/ last'.op = "construct"
              \/ last'.op = "conf_change" /\ ProfileKey \in last'.changed
           /\ conf.val[ProfileKey] \notin {"custom", "balanced",
                                          "high_recovery_ops",
                                          "high_client_ops"}) =>
            /\ aborted' # ""
            /\ last'.writes = last'.profile_read.writes
            /\ last'.applies = last'.profile_read.applies
            /\ last'.refreshes = last'.profile_read.refreshes
            /\ last'.cmds = << >>]_vars
\* an instance running under a profile handled a notification of an IOPS
\* capacity and of a profile name it does not know
C12_Witness ==
  /\ aborted # ""
  /\ last.op = "conf_change"
  /\ last.profile = "balanced"
  /\ last.changed \cap IopsKeys # {}
  /\ ProfileKey \in last.changed
  /\ conf.val[ProfileKey] = UnknownProfile
  /\ last.refreshes = 1

\* ----------------------------------------------- registry and hot path
\* C13 (atomic visibility): the registry a get_info call reads, made by the
\* add_request of an enqueue, is the registry as it was before the
\* update_from_config in progress, if any, or as that update leaves it, never a
\* registry in which some ClientInfo is updated and another is not.
C13_RegistryReadAtomic ==
  [][\A s \in Shards :
       (/\ last'.op = "enqueue" /\ last'.shard = s
        /\ last'.item.class_id # "immediate"
        /\ inst[s].update_calls # 0) =>
         inst[s].client_registry \in {inst[s].update_from, inst[s].update_to}]_vars

\* ------------------------------------------------- profiles across shards
\* the ClientInfo of the n-th class of qos_params (client, background_recovery,
\* background_best_effort) under the table of profile p, for the capacity per
\* shard cap
TableInfo(p, n, cap) ==
  LET res == ProfileTable(p)[3 * n - 2]
      wgt == ProfileTable(p)[3 * n - 1]
      lim == ProfileTable(p)[3 * n]
  IN [reservation |-> IF res # 0
                        THEN Ratio(BigMulSmall(cap.num, res), cap.den * 100)
                        ELSE default_min,
      weight |-> wgt,
      limit |-> IF lim # 0
                  THEN Ratio(BigMulSmall(cap.num, lim), cap.den * 100)
                  ELSE default_max]
\* the registry of instance self holds the table of profile p
HoldsTable(self, p) ==
  LET cap == self.osd_bandwidth_capacity_per_shard
      reg == self.client_registry
  IN /\ reg.default_external_client_info = TableInfo(p, 1, cap)
     /\ reg.internal_client_infos["background_recovery"] = TableInfo(p, 2, cap)
     /\ reg.internal_client_infos["background_best_effort"]
          = TableInfo(p, 3, cap)
\* C14 (cross-shard consistency): once the operator has switched a node
\* without manual QoS values from the balanced profile to another built-in
\* profile and every shard has handled every notification it was sent, the
\* registry of every shard holds the table of the new profile translated by
\* the capacity per shard.
C14_ShardsAgreeAfterSwitch ==
  (/\ aborted = ""
   /\ conf.val[ProfileKey] \in {"high_recovery_ops", "high_client_ops"}
   /\ \A k \in QosKeys : conf.ovr[k] = Absent
   /\ mon_cmds = {}
   /\ \A s \in Shards : inst[s].constructed /\ pending[s] = << >>) =>
    \A s \in Shards : HoldsTable(inst[s], conf.val[ProfileKey])

\* ------------------------------------------------------- manual overrides
\* C15 (no manual override under a profile): a construction or a handled
\* notification that ends with the instance under a built-in profile leaves
\* every ClientInfo of its registry at the table value of that profile
\* translated by the capacity per shard, also while the store holds a QoS
\* value set by hand.
C15_OverrideNeverApplied ==
  [][\A s \in Shards :
       (/\ last'.shard = s /\ aborted' = ""
        /\ last'.op \in {"construct", "conf_change"}
        /\ inst'[s].mclock_profile \in {"balanced", "high_recovery_ops",
                                        "high_client_ops"}
        /\ \E k \in QosKeys : conf'.ovr[k] # Absent) =>
         HoldsTable(inst'[s], inst'[s].mclock_profile)]_vars

\* C16 (every changed key is rejected): when shard 0, with a MonClient and
\* under a built-in profile, handles a notification naming two or more QoS
\* keys that were set by hand, it sends "config rm" for "osd" and for
\* "osd.<whoami>" for each of those keys.
C16_EveryChangedKeyRemoved ==
  [][(/\ last'.op = "conf_change" /\ last'.shard = 0 /\ aborted' = ""
      /\ monc
      /\ inst[0].mclock_profile \notin {"custom"}
      /\ inst'[0].mclock_profile \notin {"custom"}
      /\ Cardinality(last'.changed \cap QosKeys) >= 2
      /\ \A k \in last'.changed \cap QosKeys : conf.ovr[k] # Absent) =>
       \A k \in last'.changed \cap QosKeys :
         \A who \in {"osd", "osd.3"} :
           \E i \in 1..Len(last'.cmds) :
             last'.cmds[i] = [prefix |-> "config rm", who |-> who,
                              name |-> k]]_vars

\* ------------------------------------------- bandwidth and IOPS changes
\* cost-per-IO and capacity-per-shard of self are those of the capacities
\* configured in c
CapacityFrom(self, c) ==
  LET bw == IF DeviceBandwidth(c) = ToBig(0) THEN ToBig(1)
                                             ELSE DeviceBandwidth(c)
      iops == IF DeviceIops(c) < 1 THEN 1 ELSE DeviceIops(c)
  IN /\ self.osd_bandwidth_cost_per_io = Ratio(bw, iops)
     /\ self.osd_bandwidth_capacity_per_shard = Ratio(bw, num_shards)
\* the registry of self is the translation of the values configured in c
RegistryFrom(self, c) ==
  LET cap == self.osd_bandwidth_capacity_per_shard
      reg == self.client_registry
  IN /\ reg.default_external_client_info = TranslatedInfo(c, "client", cap)
     /\ \A cl \in InternalClasses :
          reg.internal_client_infos[cl] = TranslatedInfo(c, cl, cap)
\* the allocations [res, wgt, lim] of the table of profile p, in hundredths
TableAllocs(p) ==
  [client |-> [res |-> ProfileTable(p)[1], wgt |-> ProfileTable(p)[2] * 100,
               lim |-> ProfileTable(p)[3]],
   background_recovery |->
     [res |-> ProfileTable(p)[4], wgt |-> ProfileTable(p)[5] * 100,
      lim |-> ProfileTable(p)[6]],
   background_best_effort |->
     [res |-> ProfileTable(p)[7], wgt |-> ProfileTable(p)[8] * 100,
      lim |-> ProfileTable(p)[9]]]
\* C17 (bandwidth / IOPS asymmetry): a handled notification naming only
\* bandwidth keys recomputes cost-per-IO and capacity-per-shard and refreshes
\* the registry, and leaves the profile, the allocations and the defaults as
\* they were, with no default set, no apply_changes and no monitor command,
\* on every shard; one naming only IOPS keys, under a built-in profile,
\* recomputes the capacities and the allocations of the profile, refreshes
\* the registry and, on shard 0 and only there, sets the nine defaults to the
\* table and calls apply_changes.
C17_BandwidthIopsAsymmetry ==
  [][\A s \in Shards :
       (last'.op = "conf_change" /\ last'.shard = s /\ last'.changed # {}) =>
         /\ last'.changed \subseteq BwKeys =>
              /\ CapacityFrom(inst'[s], conf')
              /\ last'.refreshes = 1 /\ RegistryFrom(inst'[s], conf')
              /\ inst'[s].mclock_profile = inst[s].mclock_profile
              /\ inst'[s].client_allocs = inst[s].client_allocs
              /\ conf'.dflt = conf.dflt
              /\ last'.writes = {} /\ last'.applies = 0
              /\ last'.cmds = << >>
         /\ (/\ last'.changed \subseteq IopsKeys
             /\ inst[s].mclock_profile \in {"balanced", "high_recovery_ops",
                                            "high_client_ops"}) =>
              /\ CapacityFrom(inst'[s], conf')
              /\ last'.refreshes = 1 /\ RegistryFrom(inst'[s], conf')
              /\ inst'[s].mclock_profile = inst[s].mclock_profile
              /\ inst'[s].client_allocs = TableAllocs(inst[s].mclock_profile)
              /\ last'.cmds = << >>
              /\ IF s = 0
                   THEN /\ last'.writes = QosKeys /\ last'.applies = 1
                        /\ \A i \in 1..Len(qos_params) :
                             conf'.dflt[qos_params[i]]
                               = ProfileTable(inst[s].mclock_profile)[i]
                   ELSE /\ last'.writes = {} /\ last'.applies = 0
                        /\ conf'.dflt = conf.dflt]_vars
\* shard 0, under balanced, handled a change of the bandwidth capacity that
\* altered its registry
C17_Witness ==
  /\ last.op = "conf_change" /\ last.shard = 0
  /\ last.changed = {"osd_mclock_max_sequential_bandwidth_hdd"}
  /\ last.profile = "balanced"
  /\ inst[0].osd_bandwidth_capacity_per_shard = Ratio(ToBig(1), 2)
  /\ last.refreshes = 1
  /\ last.writes = {}

\* ------------------------------------------------------ 32-bit arithmetic
\* C18 (strictly positive cost): the scaled cost an enqueue attaches to an
\* item that is not immediate is at least 1 and at least the truncated
\* cost-per-IO plus 1: neither the conversion of cost-per-IO to 32 bits nor
\* the 32-bit addition wraps around.
C18_ScaledCostPositive ==
  [][\A s \in Shards :
       (last'.op = "enqueue" /\ last'.shard = s
          /\ last'.item.class_id # "immediate") =>
         /\ BigLeq(ToBig(1), last'.item.qos_cost)
         /\ BigLeq(BigAdd(Trunc(inst[s].osd_bandwidth_cost_per_io), ToBig(1)),
                   last'.item.qos_cost)]_vars

\* -------------------------------------------------------- conservation
\* the identities of the items in a sequence
IdsOf(seq) == {seq[i].id : i \in 1..Len(seq)}
\* the identities the instance of shard s holds in its dmclock queue
QueuedIds(s) == {r.item.id : r \in inst[s].scheduler}
\* the identities of the items held by the instances of the node
HeldIds ==
  UNION {IdsOf(inst[s].immediate) \cup QueuedIds(s) : s \in Shards}
\* every item entered is held once, in the bypass list or in the dmclock
\* queue of one shard, or was returned once
Conserved ==
  /\ \A s \in Shards :
       /\ Cardinality(IdsOf(inst[s].immediate)) = Len(inst[s].immediate)
       /\ Cardinality(QueuedIds(s)) = request_count(inst[s].scheduler)
       /\ IdsOf(inst[s].immediate) \cap QueuedIds(s) = {}
       /\ (IdsOf(inst[s].immediate) \cup QueuedIds(s)) \cap IdsOf(returned)
            = {}
       /\ \A t \in Shards \ {s} :
            (IdsOf(inst[s].immediate) \cup QueuedIds(s))
              \cap (IdsOf(inst[t].immediate) \cup QueuedIds(t)) = {}
  /\ Cardinality(IdsOf(returned)) = Len(returned)
  /\ HeldIds \cup IdsOf(returned) = 1..(nextId - 1)
\* C19 (item conservation): while no assertion has failed, every item given
\* to enqueue or enqueue_front is in exactly one of the bypass list and the
\* dmclock queue until one Ready outcome returns it, whatever notifications
\* are handled in between; a Ready outcome removes the item it returns and
\* no other, a Future outcome removes none, and the bypass list and the
\* dmclock queue together hold as many items as were entered and not
\* returned.
C19_ItemConservation ==
  [][aborted' = "" =>
       /\ Conserved'
       /\ Cardinality(HeldIds') = (nextId' - 1) - Len(returned')
       /\ \A s \in Shards :
            /\ (last'.op = "dequeue" /\ last'.shard = s) =>
                 IF last'.result.kind = "Ready"
                   THEN /\ returned' = Append(returned, last'.result.item)
                        /\ last'.result.item.id
                             \in IdsOf(inst[s].immediate) \cup QueuedIds(s)
                        /\ Len(inst'[s].immediate)
                             + request_count(inst'[s].scheduler)
                             = Len(inst[s].immediate)
                                + request_count(inst[s].scheduler) - 1
                   ELSE /\ last'.result.kind = "Future"
                        /\ returned' = returned
                        /\ inst'[s].immediate = inst[s].immediate
                        /\ inst'[s].scheduler = inst[s].scheduler
            /\ last'.op \notin {"dequeue", "enqueue", "enqueue_front"} =>
                 /\ inst'[s].immediate = inst[s].immediate
                 /\ inst'[s].scheduler = inst[s].scheduler
                 /\ returned' = returned]_vars
\* two items, one entered by enqueue and one by enqueue_front, were both
\* returned after the instance handled a change of the configuration
C19_Witness ==
  /\ aborted = ""
  /\ Len(returned) = 2
  /\ returned[1].via # returned[2].via
  /\ changes = 1
  /\ inst[0].update_to # NoRegistry
  /\ inst[0].immediate = << >> /\ inst[0].scheduler = {}

\* ---------------------------------------------------- the custom profile
\* C20 (manual edits under custom): an instance under the custom profile
\* that handles a notification naming a QoS key refreshes its registry, so
\* that the ClientInfo of the three classes are the translation of the values
\* now configured, and sends no monitor command, sets no default and does not
\* call apply_changes, on every shard and with or without a MonClient.
C20_CustomEditsAuthoritative ==
  [][\A s \in Shards :
       (/\ last'.op = "conf_change" /\ last'.shard = s /\ aborted' = ""
        /\ last'.changed \cap QosKeys # {}
        /\ inst[s].mclock_profile = "custom"
        /\ inst'[s].mclock_profile = "custom") =>
         /\ last'.refreshes >= 1
         /\ RegistryFrom(inst'[s], conf')
         /\ last'.cmds = << >>
         /\ mon_cmds' = mon_cmds
         /\ last'.writes = {} /\ last'.applies = 0
         /\ conf'.dflt = conf.dflt]_vars
\* shard 1 of a node with a MonClient took over a client reservation of 0.5
\* set by hand under the custom profile
C20_Witness ==
  /\ last.op = "conf_change" /\ last.shard = 1
  /\ monc
  /\ last.profile = "custom" /\ inst[1].mclock_profile = "custom"
  /\ Key("client", "res") \in last.changed
  /\ inst[1].client_registry.default_external_client_info.reservation
       = Ratio(BigMulSmall(inst[1].osd_bandwidth_capacity, 50),
               num_shards * 100)

\* ---------------------------------------------------------- reconvergence
\* the operator changes the bandwidth capacity after a manual edit of a QoS
\* option, one change more than the edits MaxChanges allows
CapacityChangeAfterEdit(v) ==
  /\ aborted = ""
  /\ changes >= 1 /\ changes <= MaxChanges
  /\ changes' = changes + 1
  /\ v # conf.val["osd_mclock_max_sequential_bandwidth_hdd"]
  /\ StoreChange([conf EXCEPT
                    !.val["osd_mclock_max_sequential_bandwidth_hdd"] = v,
                    !.changed = {"osd_mclock_max_sequential_bandwidth_hdd"}],
                 "operator")
  /\ UNCHANGED mon_cmds
\* every shard is constructed, has handled what it was sent and holds the
\* table of the profile, and the monitor has no command to apply
Settled ==
  /\ mon_cmds = {}
  /\ \A s \in Shards :
       /\ inst[s].constructed /\ pending[s] = << >>
       /\ HoldsTable(inst[s], conf.val[ProfileKey])
\* SpecReconverge: a node with a MonClient under a built-in profile; once it
\* is settled the operator sets one QoS option by hand, and may change the
\* bandwidth capacity afterwards; the shards handle their notifications and
\* the monitor applies the commands it was sent.
InitReconverge ==
  InitOf({"balanced", "high_client_ops"}, {Bandwidth200}, {Bandwidth200},
         {100}, {100}, {TRUE}, {TRUE})
NextReconverge ==
  \/ \E s \in Shards : Construct(s)
  \/ \E s \in Shards : HandleConfChange(s)
  \/ \E key \in ManualKeys :
       Settled /\ OperatorSetQos(key, ManualValue(key))
  \/ \E v \in ConfBwValues : CapacityChangeAfterEdit(v)
  \/ \E cmd \in mon_cmds : MonRemove(cmd)
SpecReconverge == InitReconverge /\ [][NextReconverge]_vars
\* C21 (reconvergence): on a node with a MonClient under a built-in profile,
\* once a QoS option was set by hand, the commands sent were applied and
\* every shard has handled every notification, no option has a value set by
\* hand, every option reads as the default of the profile, and the registry
\* of every shard holds the values of the profile's table.
C21_Reconverged ==
  (/\ aborted = "" /\ monc
   /\ changes >= 1
   /\ mon_cmds = {}
   /\ \A s \in Shards : inst[s].constructed /\ pending[s] = << >>) =>
    /\ \A i \in 1..Len(qos_params) :
         /\ conf.ovr[qos_params[i]] = Absent
         /\ GetVal(conf, qos_params[i])
              = ProfileTable(conf.val[ProfileKey])[i]
    /\ \A s \in Shards : HoldsTable(inst[s], conf.val[ProfileKey])

====
